---- MODULE Spec2Model ----
(***************************************************************************)
(* Model of the product/variant import of kso_import_productvariant:       *)
(* models/import_variant_helpers.py (the reconciliation algorithm) and the *)
(* call made by models/product_variant_import_wizard.py.                   *)
(*                                                                         *)
(* The catalog (the Odoo ORM) is a plain record store: search, create,     *)
(* write, unlink and commit do what their names say and nothing else; a    *)
(* field that a create() does not set holds the default of its type (0 for *)
(* a float).  Floats are modelled by integers, record ids by counters.     *)
(***************************************************************************)
EXTENDS Integers, Sequences, FiniteSets, TLC

VARIABLES
    rows,               \* product_data: the row table handed to the import
    db,                 \* the catalog as the running transaction sees it
    committed,          \* the catalog as of the last env.cr.commit()
    nextId,             \* id sequences of the catalog (never rolled back)
    pc,                 \* position inside add_or_update_product_with_variants
    run,                \* 1: first import of the table, 2: the same table again
    groups,             \* templates_and_variants (insertion-ordered dict)
    gi,                 \* index of the group being processed
    vi,                 \* index of the variant row being processed
    attribute_values,   \* result of setup_template_attributes for the group
    created_variants,   \* created_variants of the group (variant ids)
    product_tmpl,       \* id of the template of the group (0: none yet)
    err,                \* what was raised, "" while nothing was
    hist                \* history: what the import has done so far

vars == <<rows, db, committed, nextId, pc, run, groups, gi, vi,
          attribute_values, created_variants, product_tmpl, err, hist>>

(***************************************************************************)
(* Bounds of the model.                                                    *)
(***************************************************************************)
MaxRows == 2            \* longest row table of the import specification
MaxGroupRows == 4       \* longest row table of the grouping specification
MaxVariants == 3        \* most variants of the template in the cleanup specification

(***************************************************************************)
(* Strings.  str.strip() and str.lower() over the strings of the model.    *)
(***************************************************************************)
Strip(s) ==
    CASE s = " Red " -> "Red"
      [] s = " m" -> "m"
      [] s = "  " -> ""
      [] OTHER -> s

Lower(s) ==
    CASE s = "Shirt" -> "shirt"
      [] s = "Hat" -> "hat"
      [] s = "Mug" -> "mug"
      [] s = "Color" -> "color"
      [] s = "Red" -> "red"
      [] s = " Red " -> " red "
      [] s = "Unit" -> "unit"
      [] s = "Box" -> "box"
      [] s = "Service" -> "service"
      [] s = "True" -> "true"
      [] s = "Serial" -> "serial"
      [] OTHER -> s

(***************************************************************************)
(* Cells.  A numeric column (sale price, cost price, stock quantity) holds *)
(* no key at all, None, "", a number, a string that float() parses, or a   *)
(* string that float() rejects.                                            *)
(***************************************************************************)
NoKey == [kind |-> "missing", n |-> 0]
None == [kind |-> "none", n |-> 0]
EmptyText == [kind |-> "empty", n |-> 0]
Num(n) == [kind |-> "num", n |-> n]
NumText(n) == [kind |-> "numtext", n |-> n]
BadText == [kind |-> "text", n |-> 0]

\* dict.get(key): a missing key reads as None
Get(c) == IF c.kind = "missing" THEN None ELSE c
\* dict.get(key, 0): a missing key reads as the number 0
GetOrZero(c) == IF c.kind = "missing" THEN Num(0) ELSE c
\* Python truth value of a cell
Truthy(c) == c.kind \in {"numtext", "text"} \/ (c.kind = "num" /\ c.n # 0)
\* float(c) returns (rather than raising ValueError / TypeError)
CanFloat(c) == c.kind \in {"num", "numtext"}
FloatOf(c) == c.n

(***************************************************************************)
(* The variant cell: None (or ""), a string of white space, or a text that *)
(* split(',') cuts into segments; a segment has a colon or not.            *)
(***************************************************************************)
NoVariant == [kind |-> "none", segs |-> <<>>]
SpaceVariant == [kind |-> "space", segs |-> <<>>]
Pair(a, v) == [colon |-> TRUE, attr |-> a, val |-> v]
Junk == [colon |-> FALSE, attr |-> "", val |-> ""]
Descriptor(segs) == [kind |-> "text", segs |-> segs]

\* product.get('variant') is truthy
VariantTruthy(d) == d.kind # "none"
\* (product.get('variant') or '').strip() is non-empty
VariantNonBlank(d) == d.kind = "text"

Row(name, variant, sale, cost, stock) ==
    [name |-> name, variant |-> variant, sale |-> sale, cost |-> cost,
     stock |-> stock, uom |-> "", puom |-> "", type |-> "<nokey>",
     tracked |-> "", tracked_by |-> "", storable |-> ""]

(***************************************************************************)
(* Row Grouper: add_or_update_product_with_variants, the first loop.       *)
(* A group holds the index of its defining row and the indices of its      *)
(* variant rows (the dict objects of the code, by position in the table).  *)
(***************************************************************************)
HasGroup(g, name) == \E k \in 1..Len(g) : g[k].name = name
GroupIndex(g, name) == CHOOSE k \in 1..Len(g) : g[k].name = name

AppendVariant(g, k, i) ==
    [g EXCEPT ![k].variants = Append(@, i)]

\* a row with a name: starts the group of a new name, or (name seen before)
\* is one more variant row of that group when it carries a variant cell
NamedRowStep(data, i, g) ==
    LET name == Strip(data[i].name) IN
    IF ~HasGroup(g, name)
    THEN Append(g, [name |-> name, template_data |-> i, variants |-> <<>>])
    ELSE IF VariantTruthy(data[i].variant)
         THEN AppendVariant(g, GroupIndex(g, name), i)
         ELSE g

\* the last row before row i that has a name (0: there is none)
LastNamed(data, i) ==
    LET named == {j \in 1..(i - 1) : Strip(data[j].name) # ""} IN
    IF named = {} THEN 0 ELSE CHOOSE j \in named : \A k \in named : k <= j

\* a grouper that threads "the current name": the blank-name row follows
\* the last named row, wherever the group of that name stands in the dict
BlankRowStepNearestNamed(data, i, g) ==
    IF LastNamed(data, i) # 0
    THEN AppendVariant(g, GroupIndex(g, Strip(data[LastNamed(data, i)].name)), i)
    ELSE g

\* a row without a name: goes to list(templates_and_variants.keys())[-1],
\* the group whose name was first seen last; dropped when there is none
BlankRowStep(data, i, g) ==
    IF Len(g) > 0 THEN AppendVariant(g, Len(g), i) ELSE g

GroupStep(data, i, g) ==
    IF Strip(data[i].name) # ""
    THEN NamedRowStep(data, i, g)
    ELSE BlankRowStep(data, i, g)

RECURSIVE GroupRowsFrom(_, _, _)
GroupRowsFrom(data, i, g) ==
    IF i > Len(data) THEN g
    ELSE GroupRowsFrom(data, i + 1, GroupStep(data, i, g))

GroupRows(data) == GroupRowsFrom(data, 1, <<>>)

(***************************************************************************)
(* The catalog.  Every table is a set of records; x2many fields read in id *)
(* order; search(..., limit=1) returns the match of least id.              *)
(***************************************************************************)
MaxOf(S) == IF S = {} THEN 0 ELSE CHOOSE x \in S : \A y \in S : y <= x
MinOf(S) == CHOOSE x \in S : \A y \in S : x <= y
FirstById(S) == CHOOSE r \in S : \A q \in S : r.id <= q.id

\* sorted(ids) of a list of distinct ids
RECURSIVE SortedSet(_)
SortedSet(S) ==
    IF S = {} THEN <<>>
    ELSE <<MinOf(S)>> \o SortedSet(S \ {MinOf(S)})

Range(q) == {q[k] : k \in 1..Len(q)}
Sorted(q) == SortedSet(Range(q))

\* template.product_variant_ids
VariantsOf(d, tmpl) == {v \in d.variants : v.tmpl = tmpl}
TemplateById(d, id) == CHOOSE t \in d.templates : t.id = id

\* env['uom.uom'].search([('name', '=ilike', uom_name)], limit=1)
SearchUom(d, name) == {u \in d.uoms : Lower(u.name) = Lower(name)}
\* env['product.template'].search([('name', '=ilike', template_name)], limit=1)
SearchTemplate(d, name) == {t \in d.templates : Lower(t.name) = Lower(name)}
\* env['product.attribute'].search([('name', '=ilike', attr_name)], limit=1)
SearchAttribute(d, name) == {a \in d.attributes : Lower(a.name) = Lower(name)}
\* env['product.attribute.value'].search([name =ilike, attribute_id =], limit=1)
SearchValue(d, attribute_id, name) ==
    {x \in d.values : x.attribute_id = attribute_id /\ Lower(x.name) = Lower(name)}
\* env['product.template.attribute.value'].search([tmpl =, value =], limit=1)
SearchLink(d, tmpl, value_id) ==
    {l \in d.ptavs : l.tmpl = tmpl /\ l.value_id = value_id}

(***************************************************************************)
(* get_or_create_uom: [raises, id]; id 0 stands for None.                  *)
(***************************************************************************)
\* a lookup that answers None for a name no unit carries
GetOrCreateUomNoneWhenMissing(d, uom_name) ==
    IF uom_name = "" \/ SearchUom(d, uom_name) = {}
    THEN [raises |-> FALSE, id |-> 0]
    ELSE [raises |-> FALSE, id |-> FirstById(SearchUom(d, uom_name)).id]

GetOrCreateUom(d, uom_name) ==
    IF uom_name = "" THEN [raises |-> FALSE, id |-> 0]
    ELSE IF SearchUom(d, uom_name) = {} THEN [raises |-> TRUE, id |-> 0]
    ELSE [raises |-> FALSE, id |-> FirstById(SearchUom(d, uom_name)).id]

UomResolves(d, uom_name) == ~GetOrCreateUom(d, uom_name).raises
UomId(d, uom_name) == GetOrCreateUom(d, uom_name).id

(***************************************************************************)
(* get_tracking_value                                                      *)
(***************************************************************************)
TrackingValue(is_tracked, tracked_by) ==
    IF ~is_tracked THEN "none"
    ELSE LET tracked_by_lower == Lower(Strip(tracked_by)) IN
         IF tracked_by_lower = "" THEN "none"
         ELSE IF tracked_by_lower \in {"lot", "serial"} THEN tracked_by_lower
         ELSE "none"

(***************************************************************************)
(* The template phase of a group: the fields derived from the defining row *)
(* (vals), the upsert and the first commit.                                *)
(***************************************************************************)
\* variants of the group once the defining row that carries a variant cell
\* has been inserted in front
GroupVariants(data, g) ==
    IF VariantTruthy(data[g.template_data].variant)
    THEN <<g.template_data>> \o g.variants
    ELSE g.variants

UomValue(td) == Strip(IF td.uom = "" THEN "Unit" ELSE td.uom)
PurchaseUomValue(td) == IF Strip(td.puom) = "" THEN UomValue(td) ELSE Strip(td.puom)
ProductType(td) == Lower(Strip(IF td.type \in {"<nokey>", ""} THEN "consu" ELSE td.type))
IsTracked(td) == Lower(Strip(td.tracked)) = "true"
TrackedBy(td) == Lower(Strip(td.tracked_by))
IsStorable(td) ==
    IF ProductType(td) # "service" /\ IsTracked(td)
       /\ (TrackedBy(td) = "" \/ TrackedBy(td) \notin {"lot", "serial"})
    THEN TRUE
    ELSE Lower(Strip(IF td.storable = "" THEN "false" ELSE td.storable)) = "true"

\* what building vals raises: "" when nothing.  The dict is built in source
\* order: float(cost price), the two units of measure, then float(sale price)
TemplateValsError(d, td, variants) ==
    IF ~CanFloat(GetOrZero(td.cost)) THEN "float"
    ELSE IF ~UomResolves(d, UomValue(td)) \/ ~UomResolves(d, PurchaseUomValue(td))
         THEN "uom"
    ELSE IF variants = <<>> /\ ~CanFloat(GetOrZero(td.sale)) THEN "float"
    ELSE ""

\* vals without list_price
TemplateVals(d, name, td) ==
    [name |-> name,
     type |-> IF td.type = "<nokey>" THEN "consu" ELSE td.type,
     standard_price |-> FloatOf(GetOrZero(td.cost)),
     uom_id |-> UomId(d, UomValue(td)),
     uom_po_id |-> UomId(d, PurchaseUomValue(td)),
     is_storable |-> IsStorable(td),
     tracking |-> TrackingValue(IsTracked(td), td.tracked_by),
     lot_valuated |-> TrackingValue(IsTracked(td), td.tracked_by) \in {"lot", "serial"}]

\* does the write / create carry list_price
SetsListPrice(d, found, variants) ==
    /\ variants = <<>>
    /\ found = {} \/ Cardinality(VariantsOf(d, FirstById(found).id)) <= 1

\* the record after create(vals) / write(vals)
UpsertedTemplate(d, ids, name, td, variants) ==
    LET found == SearchTemplate(d, name)
        vals == TemplateVals(d, name, td)
        id == IF found = {} THEN ids.template ELSE FirstById(found).id
        old_price == IF found = {} THEN 0 ELSE FirstById(found).list_price
    IN  [id |-> id, name |-> vals.name, type |-> vals.type,
         standard_price |-> vals.standard_price,
         uom_id |-> vals.uom_id, uom_po_id |-> vals.uom_po_id,
         is_storable |-> vals.is_storable, tracking |-> vals.tracking,
         lot_valuated |-> vals.lot_valuated,
         list_price |-> IF SetsListPrice(d, found, variants)
                        THEN FloatOf(GetOrZero(td.sale))
                        ELSE old_price]

UpsertTemplate(d, ids, name, td, variants) ==
    LET t == UpsertedTemplate(d, ids, name, td, variants) IN
    [d EXCEPT !.templates = {x \in @ : x.id # t.id} \cup {t}]


(***************************************************************************)
(* Parsing a variant cell: split(','), keep the segments with a colon,     *)
(* strip and lower-case both sides.                                        *)
(***************************************************************************)
RECURSIVE ParseSegs(_)
ParseSegs(segs) ==
    IF segs = <<>> THEN <<>>
    ELSE LET s == Head(segs) IN
         (IF s.colon
          THEN <<[attr |-> Lower(Strip(s.attr)), val |-> Lower(Strip(s.val))]>>
          ELSE <<>>) \o ParseSegs(Tail(segs))

ParsePairs(desc) == IF VariantNonBlank(desc) THEN ParseSegs(desc.segs) ELSE <<>>

(***************************************************************************)
(* setup_template_attributes                                               *)
(***************************************************************************)
\* the pairs of all the rows of all_variants, in reading order
RECURSIVE AllPairs(_, _)
AllPairs(data, all_variants) ==
    IF all_variants = <<>> THEN <<>>
    ELSE ParsePairs(data[Head(all_variants)].variant) \o AllPairs(data, Tail(all_variants))

\* attribute_values[attr_name][attr_value] = None, keeping insertion order
AddPair(av, p) ==
    IF \E k \in 1..Len(av) : av[k].name = p.attr
    THEN LET k == CHOOSE k \in 1..Len(av) : av[k].name = p.attr IN
         IF p.val \in Range(av[k].values) THEN av
         ELSE [av EXCEPT ![k].values = Append(@, p.val)]
    ELSE Append(av, [name |-> p.attr, values |-> <<p.val>>])

RECURSIVE CollectPairs(_, _)
CollectPairs(pairs, av) ==
    IF pairs = <<>> THEN av
    ELSE CollectPairs(Tail(pairs), AddPair(av, Head(pairs)))

\* search or create the values of one attribute; st = [db, ids, out]
RECURSIVE EnsureValues(_, _, _)
EnsureValues(st, attribute_id, names) ==
    IF names = <<>> THEN st
    ELSE LET found == SearchValue(st.db, attribute_id, Head(names))
             id == IF found = {} THEN st.ids.value ELSE FirstById(found).id
             d1 == IF found = {}
                   THEN [st.db EXCEPT !.values = @ \cup
                            {[id |-> id, attribute_id |-> attribute_id, name |-> Head(names)]}]
                   ELSE st.db
             ids1 == IF found = {} THEN [st.ids EXCEPT !.value = @ + 1] ELSE st.ids
         IN  EnsureValues([db |-> d1, ids |-> ids1,
                           out |-> Append(st.out, [name |-> Head(names), id |-> id])],
                          attribute_id, Tail(names))

\* write the value set on the attribute line of the template, or create it
SetAttributeLine(d, tmpl, attribute_id, value_ids) ==
    [d EXCEPT !.lines = {l \in @ : ~(l.tmpl = tmpl /\ l.attribute_id = attribute_id)}
                        \cup {[tmpl |-> tmpl, attribute_id |-> attribute_id,
                               value_ids |-> value_ids]}]

\* the second loop of setup_template_attributes; st = [db, ids, out]
RECURSIVE EnsureAttributes(_, _, _)
EnsureAttributes(st, tmpl, av) ==
    IF av = <<>> THEN st
    ELSE LET a == Head(av)
             found == SearchAttribute(st.db, a.name)
             id == IF found = {} THEN st.ids.attribute ELSE FirstById(found).id
             d1 == IF found = {}
                   THEN [st.db EXCEPT !.attributes = @ \cup {[id |-> id, name |-> a.name]}]
                   ELSE st.db
             ids1 == IF found = {} THEN [st.ids EXCEPT !.attribute = @ + 1] ELSE st.ids
             vs == EnsureValues([db |-> d1, ids |-> ids1, out |-> <<>>], id, a.values)
             d2 == SetAttributeLine(vs.db, tmpl, id,
                                    {vs.out[k].id : k \in 1..Len(vs.out)})
         IN  EnsureAttributes([db |-> d2, ids |-> vs.ids,
                               out |-> Append(st.out, [name |-> a.name, attribute_id |-> id,
                                                       values |-> vs.out])],
                              tmpl, Tail(av))

\* [db, ids, out]: out is the mapping attribute name -> value name -> record
SetupTemplateAttributes(d, ids, tmpl, data, all_variants) ==
    EnsureAttributes([db |-> d, ids |-> ids, out |-> <<>>], tmpl,
                     CollectPairs(AllPairs(data, all_variants), <<>>))


(***************************************************************************)
(* create_variant_manual                                                   *)
(***************************************************************************)
\* variant_attrs: a dict, so a repeated attribute keeps its place and takes
\* the later value
RECURSIVE VariantAttrs(_, _)
VariantAttrs(pairs, acc) ==
    IF pairs = <<>> THEN acc
    ELSE LET p == Head(pairs) IN
         VariantAttrs(Tail(pairs),
            IF \E k \in 1..Len(acc) : acc[k].attr = p.attr
            THEN [k \in 1..Len(acc) |-> IF acc[k].attr = p.attr THEN p ELSE acc[k]]
            ELSE Append(acc, p))

\* attribute_values[attr_name][attr_value]: the set of matching value records
LookupValue(av, p) ==
    UNION {{[attribute_id |-> av[k].attribute_id, id |-> av[k].values[j].id] :
                j \in {j \in 1..Len(av[k].values) : av[k].values[j].name = p.val}} :
           k \in {k \in 1..Len(av) : av[k].name = p.attr}}

\* get_or_create_template_attribute_value over the pairs; st = [db, ids, out]
RECURSIVE LinkIds(_, _, _, _)
LinkIds(st, tmpl, av, pairs) ==
    IF pairs = <<>> THEN st
    ELSE LET hit == LookupValue(av, Head(pairs)) IN
         IF hit = {} THEN LinkIds(st, tmpl, av, Tail(pairs))
         ELSE LET attr_val == CHOOSE x \in hit : TRUE
                  found == SearchLink(st.db, tmpl, attr_val.id)
                  id == IF found = {} THEN st.ids.ptav ELSE FirstById(found).id
                  d1 == IF found = {}
                        THEN [st.db EXCEPT !.ptavs = @ \cup
                                {[id |-> id, tmpl |-> tmpl,
                                  attribute_id |-> attr_val.attribute_id,
                                  value_id |-> attr_val.id]}]
                        ELSE st.db
                  ids1 == IF found = {} THEN [st.ids EXCEPT !.ptav = @ + 1] ELSE st.ids
              IN  LinkIds([db |-> d1, ids |-> ids1, out |-> Append(st.out, id)],
                          tmpl, av, Tail(pairs))

\* ",".join(map(str, ids)) without the sort
UnsortedCombination(tmpl_attr_val_ids) == tmpl_attr_val_ids

\* candidate_combination = ",".join(map(str, sorted(tmpl_attr_val_ids)))
CandidateCombination(tmpl_attr_val_ids) == Sorted(tmpl_attr_val_ids)

\* ",".join(map(str, sorted(variant.product_template_attribute_value_ids.ids)))
VariantCombination(v) == SortedSet(v.ptav_ids)

\* the variants of the template that carry the candidate combination
MatchingVariants(d, tmpl, candidate) ==
    {v \in VariantsOf(d, tmpl) : VariantCombination(v) = candidate}

\* except: sale_price_val = 0.0
SalePriceValZeroOnError(sale, template) ==
    IF Truthy(Get(sale)) /\ CanFloat(Get(sale)) THEN FloatOf(Get(sale)) ELSE 0

\* vals['lst_price'] = vals['fix_price'] of a variant row
SalePriceVal(sale, template) ==
    IF Truthy(Get(sale))
    THEN IF CanFloat(Get(sale)) THEN FloatOf(Get(sale)) ELSE template.list_price
    ELSE 0

\* vals['standard_price'] of a variant row; old is what the record holds
CostPriceVal(cost, template, old) ==
    IF Truthy(Get(cost))
    THEN IF CanFloat(Get(cost)) THEN FloatOf(Get(cost)) ELSE template.standard_price
    ELSE old

\* [db, ids, variant, is_new, combination]; called for a non-blank variant cell
CreateVariantManual(d, ids, tmpl, product, av) ==
    LET variant_attrs == VariantAttrs(ParsePairs(product.variant), <<>>)
        ln == LinkIds([db |-> d, ids |-> ids, out |-> <<>>], tmpl, av, variant_attrs)
        candidate == CandidateCombination(ln.out)
        existing == MatchingVariants(ln.db, tmpl, candidate)
        template == TemplateById(ln.db, tmpl)
        id == IF existing = {} THEN ln.ids.variant ELSE FirstById(existing).id
        old_cost == IF existing = {} THEN 0 ELSE FirstById(existing).standard_price
        old_qty == IF existing = {} THEN 0 ELSE FirstById(existing).qty
        v == [id |-> id, tmpl |-> tmpl, ptav_ids |-> Range(ln.out),
              combination_indices |-> candidate,
              lst_price |-> SalePriceVal(product.sale, template),
              fix_price |-> SalePriceVal(product.sale, template),
              standard_price |-> CostPriceVal(product.cost, template, old_cost),
              qty |-> old_qty]
    IN  [db |-> [ln.db EXCEPT !.variants = {x \in @ : x.id # id} \cup {v}],
         ids |-> IF existing = {} THEN [ln.ids EXCEPT !.variant = @ + 1] ELSE ln.ids,
         variant |-> id, is_new |-> existing = {}, combination |-> candidate]

(***************************************************************************)
(* update_variant_stock_quantity.  quantity is a cell; ok tells whether    *)
(* the stock change wizard goes through or raises (which is caught).       *)
(***************************************************************************)
\* the wizard takes a number, or a text that its float field converts
QuantityAccepted(quantity) == quantity.kind # "text"
QuantityValue(quantity) == IF CanFloat(quantity) THEN FloatOf(quantity) ELSE 0

\* the gate without the test of tmpl.tracking
StockAppliesAnyTracking(d, variant) ==
    /\ \E v \in d.variants : v.id = variant
    /\ LET v == CHOOSE v \in d.variants : v.id = variant IN
       /\ \E t \in d.templates : t.id = v.tmpl
       /\ TemplateById(d, v.tmpl).type = "consu"

StockApplies(d, variant) ==
    /\ \E v \in d.variants : v.id = variant
    /\ LET v == CHOOSE v \in d.variants : v.id = variant IN
       /\ \E t \in d.templates : t.id = v.tmpl
       /\ TemplateById(d, v.tmpl).type = "consu"
       /\ TemplateById(d, v.tmpl).tracking \notin {"lot", "serial"}

UpdateVariantStockQuantity(d, variant, quantity, ok) ==
    IF StockApplies(d, variant) /\ ok /\ QuantityAccepted(quantity)
    THEN [d EXCEPT !.variants =
            {IF v.id = variant THEN [v EXCEPT !.qty = QuantityValue(quantity)] ELSE v : v \in @}]
    ELSE d

\* qty_value = float(cell), 0.0 when float() raises
QtyValue(cell) == IF CanFloat(cell) THEN Num(FloatOf(cell)) ELSE Num(0)

(***************************************************************************)
(* clean_up_unwanted_variants; wanted_variants is a list of variant ids    *)
(***************************************************************************)
WantedCombinations(d, wanted_variants) ==
    {v.combination_indices : v \in {v \in d.variants : v.id \in Range(wanted_variants)}}

\* a cleanup that finds nothing to remove
VariantsToRemoveNothing(d, tmpl, wanted_variants) == {}

VariantsToRemove(d, tmpl, wanted_variants) ==
    {v.id : v \in {v \in VariantsOf(d, tmpl) :
                     v.combination_indices \notin WantedCombinations(d, wanted_variants)}}

\* the guard without "the template keeps one variant"
RemovalAllowedAlways(total_variants, removed) == total_variants > 1

\* total_variants > 1 and (total_variants - len(variants_to_remove)) >= 1
RemovalAllowed(total_variants, removed) ==
    total_variants > 1 /\ (total_variants - removed) >= 1

CleanUpUnwantedVariants(d, tmpl, wanted_variants) ==
    LET variants_to_remove == VariantsToRemove(d, tmpl, wanted_variants)
        total_variants == Cardinality(VariantsOf(d, tmpl))
    IN  IF RemovalAllowed(total_variants, Cardinality(variants_to_remove))
        THEN [d EXCEPT !.variants = {v \in @ : v.id \notin variants_to_remove}]
        ELSE d

(***************************************************************************)
(* The list price recompute that ends a group.                             *)
(***************************************************************************)
\* max instead of min
StoredPriceMax(d, tmpl) == MaxOf({v.fix_price : v \in VariantsOf(d, tmpl)})

\* min(product_tmpl.product_variant_ids.mapped('fix_price'))
StoredPrice(d, tmpl) == MinOf({v.fix_price : v \in VariantsOf(d, tmpl)})

RecomputeListPrice(d, tmpl) ==
    IF VariantsOf(d, tmpl) # {}
    THEN [d EXCEPT !.templates =
            {IF t.id = tmpl THEN [t EXCEPT !.list_price = StoredPrice(d, tmpl)] ELSE t : t \in @}]
    ELSE d


(***************************************************************************)
(* env.cr.commit(): what is committed once the transaction d is committed  *)
(* over the committed state c.                                             *)
(***************************************************************************)
CommitSkipped(d, c) == c

Commit(d, c) == d

(***************************************************************************)
(* The import as a state machine.  pc:                                     *)
(*   start     add_or_update_product_with_variants is entered              *)
(*   template  a group is about to be processed (vals, upsert, commit)     *)
(*   attrs     disable_variant_auto_creation, setup_template_attributes    *)
(*   variants  the loop over all_variant_data, row vi next                 *)
(*   cleanup   clean_up_unwanted_variants and the list price               *)
(*   done      the function has returned                                   *)
(*   returned  the wizard has returned; its transaction is committed       *)
(*   raised    an exception left the function                              *)
(*   aborted   the wizard re-raised it; the transaction is rolled back     *)
(***************************************************************************)
CurrentGroup == groups[gi]
TemplateData == rows[CurrentGroup.template_data]
AllVariantData == GroupVariants(rows, CurrentGroup)
HasVariantData == \E k \in 1..Len(AllVariantData) : VariantNonBlank(rows[AllVariantData[k]].variant)

EnterGroup(h, d, c) == [h EXCEPT !.groupStart = d, !.committedStart = c]

Group ==
    /\ pc = "start"
    /\ groups' = GroupRows(rows)
    /\ gi' = 1
    /\ pc' = IF groups' = <<>> THEN "done" ELSE "template"
    /\ hist' = EnterGroup(hist, db, committed)
    /\ UNCHANGED <<rows, db, committed, nextId, run, vi, attribute_values,
                   created_variants, product_tmpl, err>>

\* building vals raises: float() of a cell, or get_or_create_uom
TemplateRaise ==
    /\ pc = "template"
    /\ TemplateValsError(db, TemplateData, AllVariantData) # ""
    /\ err' = TemplateValsError(db, TemplateData, AllVariantData)
    /\ pc' = "raised"
    /\ hist' = [hist EXCEPT !.errPhase = "template"]
    /\ UNCHANGED <<rows, db, committed, nextId, run, groups, gi, vi, attribute_values,
                   created_variants, product_tmpl>>

\* search, create or write, env.cr.commit()
TemplateUpsert ==
    /\ pc = "template"
    /\ TemplateValsError(db, TemplateData, AllVariantData) = ""
    /\ LET found == SearchTemplate(db, CurrentGroup.name)
           t == UpsertedTemplate(db, nextId, CurrentGroup.name, TemplateData, AllVariantData)
       IN  /\ db' = UpsertTemplate(db, nextId, CurrentGroup.name, TemplateData, AllVariantData)
           /\ nextId' = IF found = {} THEN [nextId EXCEPT !.template = @ + 1] ELSE nextId
           /\ product_tmpl' = t.id
           /\ hist' = [hist EXCEPT
                         !.commits = Append(@, [run |-> run, gi |-> gi, after |-> "template"]),
                         !.processed = @ \cup {t.id},
                         !.glog = Append(@, [run |-> run, gi |-> gi, tmpl |-> t.id,
                                             existed |-> found # {}])]
    /\ committed' = Commit(db', committed)
    /\ pc' = "attrs"
    /\ attribute_values' = <<>>
    /\ created_variants' = <<>>
    /\ UNCHANGED <<rows, run, groups, gi, vi, err>>

\* disable_variant_auto_creation writes a field no later step reads;
\* setup_template_attributes
SetupAttributes ==
    /\ pc = "attrs"
    /\ LET st == SetupTemplateAttributes(db, nextId, product_tmpl, rows, AllVariantData) IN
       /\ db' = st.db
       /\ nextId' = st.ids
       /\ attribute_values' = st.out
    /\ vi' = 1
    /\ pc' = "variants"
    /\ UNCHANGED <<rows, committed, run, groups, gi, created_variants, product_tmpl,
                   err, hist>>

\* one turn of the loop over all_variant_data on a row that yields no variant
SkipVariantRow ==
    /\ pc = "variants"
    /\ vi <= Len(AllVariantData)
    /\ ~VariantNonBlank(rows[AllVariantData[vi]].variant)
    /\ vi' = vi + 1
    /\ UNCHANGED <<rows, db, committed, nextId, pc, run, groups, gi, attribute_values,
                   created_variants, product_tmpl, err, hist>>

\* one turn of the loop: create_variant_manual, then the stock update
UpsertVariant ==
    /\ pc = "variants"
    /\ vi <= Len(AllVariantData)
    /\ VariantNonBlank(rows[AllVariantData[vi]].variant)
    /\ LET product == rows[AllVariantData[vi]]
           r == CreateVariantManual(db, nextId, product_tmpl, product, attribute_values)
           variant_stock == Get(product.stock)
           v == CHOOSE v \in r.db.variants : v.id = r.variant
       IN  /\ \E ok \in BOOLEAN :
                db' = IF variant_stock.kind # "none"
                      THEN UpdateVariantStockQuantity(r.db, r.variant, QtyValue(variant_stock), ok)
                      ELSE r.db
           /\ nextId' = r.ids
           /\ created_variants' = Append(created_variants, r.variant)
           /\ hist' = [hist EXCEPT !.upserts = Append(@,
                         [run |-> run, gi |-> gi, row |-> AllVariantData[vi],
                          tmpl |-> product_tmpl,
                          pairs |-> Range(VariantAttrs(ParsePairs(product.variant), <<>>)),
                          combination |-> r.combination,
                          variant |-> r.variant, is_new |-> r.is_new,
                          alive |-> {x.id : x \in VariantsOf(db, product_tmpl)},
                          tmpl_list_price |-> TemplateById(db, product_tmpl).list_price,
                          lst_price |-> v.lst_price, fix_price |-> v.fix_price])]
    /\ vi' = vi + 1
    /\ UNCHANGED <<rows, committed, pc, run, groups, gi, attribute_values, product_tmpl, err>>

\* after the loop: the single variant of a template without variant rows,
\* its stock, env.cr.commit()
DefaultVariant(id, tmpl) ==
    [id |-> id, tmpl |-> tmpl, ptav_ids |-> {}, combination_indices |-> <<>>,
     lst_price |-> 0, fix_price |-> 0, standard_price |-> 0, qty |-> 0]

FinishVariants ==
    /\ pc = "variants"
    /\ vi > Len(AllVariantData)
    /\ LET create == AllVariantData = <<>> /\ VariantsOf(db, product_tmpl) = {}
           d1 == IF create
                 THEN [db EXCEPT !.variants = @ \cup {DefaultVariant(nextId.variant, product_tmpl)}]
                 ELSE db
           template_stock == Get(TemplateData.stock)
       IN  /\ \E ok1 \in BOOLEAN, ok2 \in BOOLEAN :
                LET d2 == IF create /\ template_stock.kind # "none"
                          THEN UpdateVariantStockQuantity(d1, nextId.variant,
                                                          QtyValue(template_stock), ok1)
                          ELSE d1
                IN  db' = IF AllVariantData = <<>>
                          THEN UpdateVariantStockQuantity(d2,
                                   FirstById(VariantsOf(d2, product_tmpl)).id,
                                   template_stock, ok2)
                          ELSE d2
           /\ nextId' = IF create THEN [nextId EXCEPT !.variant = @ + 1] ELSE nextId
           /\ created_variants' = IF create THEN Append(created_variants, nextId.variant)
                                  ELSE created_variants
    /\ committed' = Commit(db', committed)
    /\ hist' = [hist EXCEPT
                  !.commits = Append(@, [run |-> run, gi |-> gi, after |-> "variants"])]
    /\ pc' = "cleanup"
    /\ UNCHANGED <<rows, run, groups, gi, vi, attribute_values, product_tmpl, err>>

\* clean_up_unwanted_variants when the rows carry variant data, the template
\* list price, then the next group or the return
CleanUp ==
    /\ pc = "cleanup"
    /\ LET d1 == IF HasVariantData
                 THEN CleanUpUnwantedVariants(db, product_tmpl, created_variants)
                 ELSE db
       IN  db' = RecomputeListPrice(d1, product_tmpl)
    /\ IF gi < Len(groups)
       THEN /\ gi' = gi + 1
            /\ pc' = "template"
            /\ hist' = EnterGroup(hist, db', committed)
       ELSE /\ gi' = gi
            /\ pc' = "done"
            /\ hist' = hist
    /\ UNCHANGED <<rows, committed, nextId, run, groups, vi, attribute_values,
                   created_variants, product_tmpl, err>>

\* a catalog call of the attribute, variant or cleanup phase raises
RepositoryError ==
    /\ pc \in {"attrs", "variants", "cleanup"}
    /\ err' = "repository"
    /\ pc' = "raised"
    /\ hist' = [hist EXCEPT !.errPhase = pc]
    /\ UNCHANGED <<rows, db, committed, nextId, run, groups, gi, vi, attribute_values,
                   created_variants, product_tmpl>>

\* action_import_productvariant: except Exception -> raise UserError; the
\* caller's transaction goes back to the last commit
Rollback ==
    /\ pc = "raised"
    /\ db' = committed
    /\ pc' = "aborted"
    /\ UNCHANGED <<rows, committed, nextId, run, groups, gi, vi, attribute_values,
                   created_variants, product_tmpl, err, hist>>

\* action_import_productvariant returns the close action; its transaction
\* is committed
Return ==
    /\ pc = "done"
    /\ committed' = db
    /\ pc' = "returned"
    /\ UNCHANGED <<rows, db, nextId, run, groups, gi, vi, attribute_values,
                   created_variants, product_tmpl, err, hist>>

\* the same file is imported once more
ImportAgain ==
    /\ pc = "returned"
    /\ run = 1
    /\ run' = 2
    /\ pc' = "start"
    /\ groups' = <<>>
    /\ gi' = 0
    /\ vi' = 0
    /\ attribute_values' = <<>>
    /\ created_variants' = <<>>
    /\ product_tmpl' = 0
    /\ hist' = [hist EXCEPT !.runStart = db, !.runStartIds = nextId, !.processed = {}]
    /\ UNCHANGED <<rows, db, committed, nextId, err>>

Next ==
    \/ Group
    \/ TemplateRaise
    \/ TemplateUpsert
    \/ SetupAttributes
    \/ SkipVariantRow
    \/ UpsertVariant
    \/ FinishVariants
    \/ CleanUp
    \/ RepositoryError
    \/ Rollback
    \/ Return
    \/ ImportAgain


(***************************************************************************)
(* Inputs: the starting catalogs and the row tables.                       *)
(***************************************************************************)
Uoms == {[id |-> 1, name |-> "Unit"]}

EmptyCatalog ==
    [uoms |-> Uoms, templates |-> {}, attributes |-> {}, values |-> {},
     lines |-> {}, ptavs |-> {}, variants |-> {}]

Template(id, name, list_price, standard_price) ==
    [id |-> id, name |-> name, type |-> "consu", standard_price |-> standard_price,
     uom_id |-> 1, uom_po_id |-> 1, is_storable |-> FALSE, tracking |-> "none",
     lot_valuated |-> FALSE, list_price |-> list_price]

Variant(id, tmpl, ptav_ids, price, qty) ==
    [id |-> id, tmpl |-> tmpl, ptav_ids |-> ptav_ids,
     combination_indices |-> SortedSet(ptav_ids),
     lst_price |-> price, fix_price |-> price, standard_price |-> 40, qty |-> qty]

\* "shirt" with its default variant and a red one; "hat" with its default variant
StockedCatalog ==
    [uoms |-> Uoms,
     templates |-> {Template(1, "shirt", 70, 40), Template(2, "hat", 20, 10)},
     attributes |-> {[id |-> 1, name |-> "Color"]},
     values |-> {[id |-> 1, attribute_id |-> 1, name |-> "Red"]},
     lines |-> {[tmpl |-> 1, attribute_id |-> 1, value_ids |-> {1}]},
     ptavs |-> {[id |-> 1, tmpl |-> 1, attribute_id |-> 1, value_id |-> 1]},
     variants |-> {Variant(1, 1, {}, 80, 0), Variant(2, 1, {1}, 70, 3),
                   Variant(3, 2, {}, 20, 1)}]

StartCatalogs == {EmptyCatalog, StockedCatalog}

Ids(S) == {r.id : r \in S}
NextIds(d) ==
    [template |-> MaxOf(Ids(d.templates)) + 1, attribute |-> MaxOf(Ids(d.attributes)) + 1,
     value |-> MaxOf(Ids(d.values)) + 1, ptav |-> MaxOf(Ids(d.ptavs)) + 1,
     variant |-> MaxOf(Ids(d.variants)) + 1]

RedM == Descriptor(<<Pair("Color", " Red "), Pair("size", "m")>>)
MRed == Descriptor(<<Pair("size", " m"), Junk, Pair("color", "red")>>)
Blue == Descriptor(<<Pair("color", "blue")>>)

RowSet ==
    { Row("Shirt", RedM, Num(100), Num(50), Num(5)),
      Row("", MRed, NumText(50), NoKey, NoKey),
      Row("shirt", Blue, BadText, NoKey, None),
      Row("", Blue, None, BadText, BadText),
      Row("Shirt", Blue, EmptyText, BadText, EmptyText),
      Row("Hat", NoVariant, Num(100), Num(50), Num(5)),
      Row("Hat", NoVariant, BadText, NoKey, NoKey),
      Row("", NoVariant, Num(30), NoKey, NoKey),
      Row("", SpaceVariant, Num(30), NoKey, NoKey),
      [Row("Mug", NoVariant, Num(30), NoKey, None) EXCEPT !.uom = "Box"],
      [Row("Mug", Blue, Num(30), NoKey, Num(2)) EXCEPT !.puom = "Box"],
      [Row("Mug", Blue, Num(30), NoKey, Num(2)) EXCEPT
          !.type = "Service", !.uom = "unit"],
      [Row("Mug", NoVariant, Num(30), NoKey, Num(2)) EXCEPT
          !.tracked = "True", !.tracked_by = "Serial"] }

TablesUpTo(S, n) == UNION {[1..k -> S] : k \in 1..n}

NoHistory(d, ids) ==
    [groupStart |-> d, committedStart |-> d, commits |-> <<>>, upserts |-> <<>>,
     glog |-> <<>>, processed |-> {}, runStart |-> d, runStartIds |-> ids, errPhase |-> ""]

InitWith(table, d) ==
    /\ rows = table
    /\ db = d
    /\ committed = d
    /\ nextId = NextIds(d)
    /\ pc = "start"
    /\ run = 1
    /\ groups = <<>>
    /\ gi = 0
    /\ vi = 0
    /\ attribute_values = <<>>
    /\ created_variants = <<>>
    /\ product_tmpl = 0
    /\ err = ""
    /\ hist = NoHistory(d, NextIds(d))

Init == \E table \in TablesUpTo(RowSet, MaxRows), d \in StartCatalogs : InitWith(table, d)

Spec == Init /\ [][Next]_vars


(***************************************************************************)
(* Properties of the import (specification Spec).                          *)
(***************************************************************************)
ThisRun(log) == {k \in 1..Len(log) : log[k].run = run}

\* C1: importing the same rows a second time leaves the same templates,
\* attributes, attribute values and variants as the first import did; the
\* second import creates no record and deletes none.
C1_Idempotent ==
    (pc = "done" /\ run = 2) =>
        /\ Ids(db.templates) = Ids(hist.runStart.templates)
        /\ Ids(db.attributes) = Ids(hist.runStart.attributes)
        /\ Ids(db.values) = Ids(hist.runStart.values)
        /\ Ids(db.variants) = Ids(hist.runStart.variants)
        /\ nextId = hist.runStartIds

\* C3: when an import has completed, every template it processed that has
\* more than one variant has the least fixed price of its variants as its
\* list price.
C3_ListPriceIsMinimum ==
    pc = "done" =>
        \A t \in db.templates :
            (t.id \in hist.processed /\ Cardinality(VariantsOf(db, t.id)) > 1) =>
                /\ \E v \in VariantsOf(db, t.id) : v.fix_price = t.list_price
                /\ \A v \in VariantsOf(db, t.id) : t.list_price <= v.fix_price

\* a completed first import whose template has variants of different fixed
\* prices and a list price that the import has changed
C3_Witness ==
    /\ pc = "done"
    /\ run = 1
    /\ \E t \in db.templates :
          /\ t.id \in hist.processed
          /\ \E v, w \in VariantsOf(db, t.id) : v.fix_price < w.fix_price
          /\ \E s \in hist.runStart.templates : s.id = t.id /\ s.list_price # t.list_price

C6_SalePriceRule ==
    \A k \in 1..Len(hist.upserts) :
        LET u == hist.upserts[k]
            cell == rows[u.row].sale
        IN  /\ u.lst_price = u.fix_price
            /\ cell.kind \in {"num", "numtext"} => u.lst_price = cell.n
            /\ cell.kind = "text" => u.lst_price = u.tmpl_list_price
            /\ cell.kind \in {"missing", "none", "empty"} => u.lst_price = 0

\* a variant row with an unparseable sale price has taken the list price of
\* its template, which is not 0
C6_Witness ==
    \E k \in 1..Len(hist.upserts) :
        /\ rows[hist.upserts[k].row].sale.kind = "text"
        /\ hist.upserts[k].tmpl_list_price # 0
        /\ hist.upserts[k].fix_price = hist.upserts[k].tmpl_list_price

\* the rows of group k: the defining row and the variant rows
GroupRowsOf(k) == {groups[k].template_data} \cup Range(groups[k].variants)

\* C7: a group whose rows carry no variant descriptor and whose template was
\* not in the catalog ends a successful import with exactly one variant and
\* with the number of the defining row's sale price cell as list price.
C7_TemplateWithoutVariantRows ==
    pc = "done" =>
        \A k \in ThisRun(hist.glog) :
            LET e == hist.glog[k]
                td == rows[groups[e.gi].template_data]
            IN  (/\ ~e.existed
                 /\ \A i \in GroupRowsOf(e.gi) : ~VariantNonBlank(rows[i].variant)
                 /\ CanFloat(GetOrZero(td.sale))) =>
                    /\ Cardinality(VariantsOf(db, e.tmpl)) = 1
                    /\ TemplateById(db, e.tmpl).list_price = FloatOf(GetOrZero(td.sale))

\* C8: no blank or non-numeric sale price, cost price or stock quantity cell
\* makes the import raise: whatever the import raises, it is not the float()
\* of such a cell.
C8_ParseFailureNeverAborts == err # "float"

\* the unit name is blank or some unit of the catalog carries it
UnitKnown(d, uom_name) ==
    uom_name = "" \/ \E u \in d.uoms : Lower(u.name) = Lower(uom_name)

\* C9: a group whose defining row names a unit of measure (or purchase unit)
\* that no catalog unit carries never gets past the building of vals: the
\* import raises with the catalog as it was when the group began, nothing of
\* the group or of a later group is written or committed, and what was
\* committed before stays.
C9_UnresolvedUomIsFatal ==
    /\ pc \in {"attrs", "variants", "cleanup"} =>
          /\ UnitKnown(db, UomValue(TemplateData))
          /\ UnitKnown(db, PurchaseUomValue(TemplateData))
    /\ err = "uom" =>
          /\ pc \in {"raised", "aborted"}
          /\ hist.errPhase = "template"
          /\ pc = "raised" => db = hist.groupStart
          /\ pc = "aborted" => db = committed
          /\ committed = hist.committedStart
          /\ \A k \in ThisRun(hist.commits) : hist.commits[k].gi < gi
          /\ \A k \in ThisRun(hist.glog) : hist.glog[k].gi < gi
          /\ \A k \in ThisRun(hist.upserts) : hist.upserts[k].gi < gi

\* the second group has raised on its unit of measure and the import is
\* rolled back to what the first group had committed
C9_Witness ==
    /\ err = "uom"
    /\ pc = "aborted"
    /\ gi = 2
    /\ run = 1
    /\ committed # hist.runStart
    /\ ~UnitKnown(db, PurchaseUomValue(TemplateData))

CommitsOf(r, k) ==
    [j \in 1..Cardinality({j \in 1..Len(hist.commits) :
                              hist.commits[j].run = r /\ hist.commits[j].gi = k}) |->
        hist.commits[CHOOSE m \in 1..Len(hist.commits) :
            /\ hist.commits[m].run = r /\ hist.commits[m].gi = k
            /\ Cardinality({n \in 1..m : hist.commits[n].run = r /\ hist.commits[n].gi = k}) = j
        ].after]

SameAttributeTables(c, d) ==
    /\ c.attributes = d.attributes
    /\ c.values = d.values
    /\ c.lines = d.lines
    /\ c.ptavs = d.ptavs

\* C10 as stated: the first checkpoint follows the attribute setup, so an
\* error of the variant phase leaves the attribute lines of the group's
\* attributes committed.
C10_AttributesCommittedBeforeVariants ==
    (pc = "aborted" /\ hist.errPhase = "variants") =>
        \A k \in 1..Len(attribute_values) :
            \E l \in committed.lines :
                /\ l.tmpl = product_tmpl
                /\ l.attribute_id = attribute_values[k].attribute_id
                /\ {attribute_values[k].values[j].id :
                        j \in 1..Len(attribute_values[k].values)} \subseteq l.value_ids

\* C10 amended: a group issues two checkpoints, the first right after the
\* template upsert and before the attribute setup and the variant upserts,
\* the second after the variant upserts and the stock updates and before the
\* cleanup; an error of the attribute or variant phase leaves the template
\* upsert committed and nothing of the group's attributes, lines and
\* variants; an error of the cleanup leaves the group's variants committed.
C10_Checkpoints ==
    /\ pc = "attrs" =>
          /\ committed = db
          /\ CommitsOf(run, gi) = <<"template">>
    /\ pc = "variants" =>
          /\ committed.templates = db.templates
          /\ product_tmpl \in Ids(committed.templates)
          /\ SameAttributeTables(committed, hist.groupStart)
          /\ committed.variants = hist.groupStart.variants
          /\ CommitsOf(run, gi) = <<"template">>
    /\ pc = "cleanup" =>
          /\ committed = db
          /\ CommitsOf(run, gi) = <<"template", "variants">>
    /\ pc \in {"template", "done"} =>
          \A k \in 1..Len(groups) :
              (k < gi \/ pc = "done") => CommitsOf(run, k) = <<"template", "variants">>
    /\ (pc = "aborted" /\ hist.errPhase \in {"attrs", "variants"}) =>
          /\ db = committed
          /\ product_tmpl \in Ids(committed.templates)
          /\ SameAttributeTables(committed, hist.groupStart)
          /\ committed.variants = hist.groupStart.variants
    /\ (pc = "aborted" /\ hist.errPhase = "cleanup") =>
          /\ db = committed
          /\ Range(created_variants) \subseteq Ids(committed.variants)

\* an error after the first variant upsert of a new template: the template
\* is committed, the attributes and the variant the group made are not
C10_Witness ==
    /\ pc = "aborted"
    /\ hist.errPhase = "variants"
    /\ vi > 1
    /\ run = 1
    /\ product_tmpl \in Ids(committed.templates)
    /\ product_tmpl \notin Ids(hist.runStart.templates)
    /\ attribute_values # <<>>
    /\ committed.lines = {}
    /\ created_variants # <<>>
    /\ committed.variants = {}


(***************************************************************************)
(* The Row Grouper alone (specification SpecGroup): longer tables over the *)
(* rows that matter to the grouping, a name and a variant cell.            *)
(***************************************************************************)
GroupRowSet ==
    { Row(name, variant, NoKey, NoKey, NoKey) :
        name \in {"", "Shirt", "Hat"}, variant \in {NoVariant, Blue} }
    \cup { Row("  ", NoVariant, NoKey, NoKey, NoKey) }

InitGroup == \E table \in TablesUpTo(GroupRowSet, MaxGroupRows) : InitWith(table, EmptyCatalog)

SpecGroup == InitGroup /\ [][Group]_vars

Blank(i) == Strip(rows[i].name) = ""
\* row j starts a group: it has a name that no earlier row has
StartsGroup(j) ==
    /\ ~Blank(j)
    /\ \A k \in 1..(j - 1) : Strip(rows[k].name) # Strip(rows[j].name)
\* the groups that hold row i as a variant row
GroupsHolding(i) == {k \in 1..Len(groups) : i \in Range(groups[k].variants)}
TimesHeld(i) ==
    Cardinality({<<k, j>> \in (1..Len(groups)) \X (1..Len(rows)) :
                    j \in 1..Len(groups[k].variants) /\ groups[k].variants[j] = i})

\* C5 as stated: a row without a name joins the group of the nearest
\* preceding row that has a name; without such a row it is dropped.
C5_BlankRowsJoinNearestNamedRow ==
    pc # "start" =>
        \A i \in 1..Len(rows) :
            Blank(i) =>
                LET named == {j \in 1..(i - 1) : ~Blank(j)} IN
                IF named = {} THEN GroupsHolding(i) = {}
                ELSE \A k \in GroupsHolding(i) :
                        groups[k].name = Strip(rows[MaxOf(named)].name)

\* C5 amended: a row without a name joins, once, the group started last
\* before it (the group of the nearest preceding row whose name was new);
\* without such a row it is dropped and the grouping goes on.
C5_BlankRowsJoinLastStartedGroup ==
    pc # "start" =>
        \A i \in 1..Len(rows) :
            Blank(i) =>
                LET started == {j \in 1..(i - 1) : StartsGroup(j)} IN
                IF started = {} THEN TimesHeld(i) = 0
                ELSE /\ TimesHeld(i) = 1
                     /\ \A k \in GroupsHolding(i) :
                            groups[k].template_data = MaxOf(started)

\* a row without a name stands behind a named row of an older group, and is
\* in the group started last
C5_Witness ==
    /\ pc # "start"
    /\ \E i \in 2..Len(rows) :
          /\ Blank(i)
          /\ ~Blank(i - 1)
          /\ ~StartsGroup(i - 1)
          /\ \E k \in GroupsHolding(i) :
                /\ groups[k].name # Strip(rows[i - 1].name)
                /\ groups[k].template_data = MaxOf({j \in 1..(i - 1) : StartsGroup(j)})

(***************************************************************************)
(* clean_up_unwanted_variants alone (specification SpecCleanup): template  *)
(* 1 with up to MaxVariants variants of any combinations, and any wanted   *)
(* list over them and over the variant of another template.                *)
(***************************************************************************)
Combinations == {{}, {1}, {2}, {1, 2}}

CleanupCatalog(n, comb) ==
    [EmptyCatalog EXCEPT
        !.templates = {Template(1, "Shirt", 0, 0), Template(2, "Hat", 0, 0)},
        !.variants = {Variant(k, 1, comb[k], 10, 0) : k \in 1..n}
                     \cup {Variant(n + 1, 2, {}, 10, 0)}]

InitCleanup ==
    \E n \in 0..MaxVariants :
        \E comb \in [1..n -> Combinations], wanted \in SUBSET (1..(n + 1)) :
            /\ rows = <<>>
            /\ db = CleanupCatalog(n, comb)
            /\ committed = db
            /\ nextId = NextIds(db)
            /\ pc = "cleanup call"
            /\ run = 1
            /\ groups = <<>>
            /\ gi = 0
            /\ vi = 0
            /\ attribute_values = <<>>
            /\ created_variants = SortedSet(wanted)
            /\ product_tmpl = 1
            /\ err = ""
            /\ hist = NoHistory(db, nextId)

\* clean_up_unwanted_variants(env, template, wanted_variants)
CleanUpCall ==
    /\ pc = "cleanup call"
    /\ db' = CleanUpUnwantedVariants(db, product_tmpl, created_variants)
    /\ pc' = "cleaned"
    /\ UNCHANGED <<rows, committed, nextId, run, groups, gi, vi, attribute_values,
                   created_variants, product_tmpl, err, hist>>

SpecCleanup == InitCleanup /\ [][CleanUpCall]_vars

\* C2: a template that has a variant before clean_up_unwanted_variants has
\* one after it, whatever the wanted list, the empty one included.
C2_CleanupKeepsAVariant ==
    pc = "cleaned" =>
        \A t \in db.templates :
            VariantsOf(hist.groupStart, t.id) # {} => VariantsOf(db, t.id) # {}

\* cleanup has run with an empty wanted list on a template of several
\* variants, and has deleted none of them
C2_Witness ==
    /\ pc = "cleaned"
    /\ created_variants = <<>>
    /\ Cardinality(VariantsOf(hist.groupStart, product_tmpl)) > 1
    /\ VariantsOf(db, product_tmpl) = VariantsOf(hist.groupStart, product_tmpl)


(***************************************************************************)
(* Failures and the checkpoints (specification Spec).  hist.groupStart is  *)
(* the catalog as the groups before the current one left it, and           *)
(* hist.committedStart what was committed of it when the group began.      *)
(***************************************************************************)
\* the template records the current group resolves to (line 353)
GroupTemplates(d) == Ids(SearchTemplate(d, CurrentGroup.name))

\* C11: when the import aborts in group gi and the transaction is rolled
\* back, every effect of the groups before gi is retained: no variant that
\* they deleted is back in the catalog, and every template of another name
\* has the list price they left it with.
C11_EarlierGroupsRetained ==
    pc = "aborted" =>
        /\ \A v \in db.variants :
              v.id \in Ids(hist.committedStart.variants) =>
                  v.id \in Ids(hist.groupStart.variants)
        /\ \A t \in hist.groupStart.templates :
              t.id \notin GroupTemplates(hist.groupStart) =>
                  \E s \in db.templates : s.id = t.id /\ s.list_price = t.list_price


(***************************************************************************)
(* update_variant_stock_quantity alone (specification SpecStock): variant  *)
(* 1 of template 1, or of no template, a template of any type and tracking *)
(* mode, variant 2 of an untracked consumable, and any quantity cell.      *)
(***************************************************************************)
TemplateTypes == {"consu", "service", "Service", "combo"}
TrackingModes == {"none", "lot", "serial"}
QuantityCells == {None, EmptyText, Num(0), Num(5), NumText(5), BadText}

StockCatalog(type, tracking, tmpl, qty) ==
    [EmptyCatalog EXCEPT
        !.templates = {[Template(1, "Shirt", 0, 0) EXCEPT !.type = type, !.tracking = tracking],
                       Template(2, "Hat", 0, 0)},
        !.variants = {Variant(1, tmpl, {}, 10, qty), Variant(2, 2, {}, 10, qty)}]

InitStock ==
    \E type \in TemplateTypes, tracking \in TrackingModes, tmpl \in {0, 1}, qty \in {0, 3},
       variant \in {1, 2}, quantity \in QuantityCells :
        /\ rows = <<Row("", NoVariant, NoKey, NoKey, quantity)>>
        /\ db = StockCatalog(type, tracking, tmpl, qty)
        /\ committed = db
        /\ nextId = NextIds(db)
        /\ pc = "stock call"
        /\ run = 1
        /\ groups = <<>>
        /\ gi = 0
        /\ vi = 0
        /\ attribute_values = <<>>
        /\ created_variants = <<variant>>
        /\ product_tmpl = tmpl
        /\ err = ""
        /\ hist = [groupStart |-> db, wizard_raised |-> FALSE]

\* update_variant_stock_quantity(env, variant, quantity); the function has
\* no raise of its own and catches what the wizard raises
StockCall ==
    /\ pc = "stock call"
    /\ \E ok \in BOOLEAN :
          /\ db' = UpdateVariantStockQuantity(db, created_variants[1], rows[1].stock, ok)
          /\ hist' = [hist EXCEPT !.wizard_raised = ~ok]
    /\ pc' = "stocked"
    /\ UNCHANGED <<rows, committed, nextId, run, groups, gi, vi, attribute_values,
                   created_variants, product_tmpl, err>>

SpecStock == InitStock /\ [][StockCall]_vars

QtyOf(d, variant) == (CHOOSE v \in d.variants : v.id = variant).qty

\* C12: update_variant_stock_quantity changes the on-hand quantity of the
\* variant only if the variant has a template of type consu and tracking
\* none and the stock adjustment did not fail; it changes nothing else in
\* the catalog and never raises.
C12_StockSyncGating ==
    pc = "stocked" =>
        LET variant == created_variants[1]
            v == CHOOSE v \in hist.groupStart.variants : v.id = variant
        IN  /\ QtyOf(db, variant) # v.qty =>
                   /\ ~hist.wizard_raised
                   /\ \E t \in db.templates :
                         t.id = v.tmpl /\ t.type = "consu" /\ t.tracking = "none"
            /\ \A w \in db.variants :
                  w.id # variant => w \in hist.groupStart.variants
            /\ Ids(db.variants) = Ids(hist.groupStart.variants)
            /\ db.templates = hist.groupStart.templates
            /\ err = ""

\* the function was called with a new quantity on a variant whose template
\* is consumable but tracked, the stock adjustment did not fail, and the
\* quantity is the old one
C12_Witness ==
    /\ pc = "stocked"
    /\ created_variants = <<1>>
    /\ product_tmpl = 1
    /\ TemplateById(db, 1).type = "consu"
    /\ TemplateById(db, 1).tracking \in {"lot", "serial"}
    /\ rows[1].stock = Num(5)
    /\ ~hist.wizard_raised
    /\ QtyOf(db, 1) = 3


(***************************************************************************)
(* The variants of a template when its group ends (specification Spec).    *)
(* A group has ended when the next one is about to begin or the function   *)
(* has returned; product_tmpl is then still the template of that group.    *)
(***************************************************************************)
GroupEnded == (pc = "template" /\ gi > 1) \/ (pc = "done" /\ groups # <<>>)
EndedGroup == IF pc = "done" THEN gi ELSE gi - 1

\* the rows of group k that carry a non-blank variant descriptor
VariantRowsOf(k) ==
    {i \in Range(GroupVariants(rows, groups[k])) : VariantNonBlank(rows[i].variant)}

\* what the variant loop of group k of this run wrote, a record per row
UpsertsOf(k) ==
    {hist.upserts[i] : i \in {i \in 1..Len(hist.upserts) :
                                 hist.upserts[i].run = run /\ hist.upserts[i].gi = k}}

\* C13: when a group with a non-blank variant descriptor has ended, every
\* such row of the group has given a combination identity, and the set of
\* the combination identities of the variants of the template is the set
\* of those identities.
C13_ConvergesToWantedVariants ==
    (GroupEnded /\ VariantRowsOf(EndedGroup) # {}) =>
        /\ {u.row : u \in UpsertsOf(EndedGroup)} = VariantRowsOf(EndedGroup)
        /\ {VariantCombination(v) : v \in VariantsOf(db, product_tmpl)}
               = {u.combination : u \in UpsertsOf(EndedGroup)}

\* the function has returned from a group that found variants of other
\* identities on its template and has deleted them
C13_Witness ==
    /\ pc = "done"
    /\ groups # <<>>
    /\ VariantRowsOf(gi) # {}
    /\ \E v \in VariantsOf(hist.groupStart, product_tmpl) :
          /\ v.id \notin Ids(db.variants)
          /\ VariantCombination(v) \notin {u.combination : u \in UpsertsOf(gi)}


(***************************************************************************)
(* The variants an import has written, when it returns (specification      *)
(* Spec).                                                                  *)
(***************************************************************************)
\* C14: when the import returns, every variant record that it created or
\* updated for a variant row exists.
C14_WrittenVariantsSurvive ==
    pc = "done" =>
        \A i \in 1..Len(hist.upserts) :
            hist.upserts[i].run = run => hist.upserts[i].variant \in Ids(db.variants)

====
